---------------------------- MODULE Spec2Model ----------------------------
(***************************************************************************)
(* A model of the water-sort puzzle core: Tube (src/src/tube.rs), Game     *)
(* (src/src/game.rs) and Solver (src/src/solver.rs).                       *)
(*                                                                         *)
(* Representation.                                                         *)
(*   String          a sequence of one-character strings                   *)
(*   Option<T>       <<>> for None, <<v>> for Some(v)                      *)
(*   Vec<T>          a sequence; Rust index i is TLA+ index i + 1          *)
(*   usize (64 bit)  four 16-bit limbs <<l3, l2, l1, l0>>, most            *)
(*                   significant first, for Move.quantity, whose value the *)
(*                   caller chooses freely; tube indices, positions and    *)
(*                   the move counter stay far below 2^31 and are plain    *)
(*                   naturals                                              *)
(*   panic           the variable panicked; an arithmetic overflow panics  *)
(*                   in a debug build and wraps in a release build         *)
(***************************************************************************)
EXTENDS Integers, Sequences, FiniteSets, TLC

VARIABLES
    tubes,          \* Game.tubes: Vec<Tube>
    moves,          \* Game.moves: HashMap<usize, Move>, as a function
    current_move,   \* Game.current_move
    colours,        \* Game.colours: HashSet<String>
    build,          \* "debug" or "release": decides what an overflow does
    panicked,       \* TRUE once a call has panicked (the program is gone)
    last,           \* the last call made and how it ended
    applied,        \* the moves make_move found legal and applied, in order
    solver          \* None, or Some(Solver) once Solver::new has returned

vars ==
    <<tubes, moves, current_move, colours, build, panicked, last, applied,
      solver>>

\* src/src/main.rs:10
TUBE_SIZE == 4

-----------------------------------------------------------------------------
(* Strings *)

None == <<>>

Some(v) == <<v>>

\* char::is_whitespace on the characters of the modelled alphabet
is_whitespace(c) == c \in {" ", "\n"}

\* char::to_lowercase on the characters of the modelled alphabet
lower_char(c) ==
    CASE c = "R" -> "r"
      [] c = "B" -> "b"
      [] c = "G" -> "g"
      [] c = "E" -> "e"
      [] c = "M" -> "m"
      [] c = "P" -> "p"
      [] c = "T" -> "t"
      [] c = "Y" -> "y"
      [] OTHER -> c

\* str::to_lowercase
to_lowercase(s) == [i \in 1..Len(s) |-> lower_char(s[i])]

RECURSIVE trim_start(_)
trim_start(s) ==
    IF s # <<>> /\ is_whitespace(Head(s)) THEN trim_start(Tail(s)) ELSE s

RECURSIVE trim_end(_)
trim_end(s) ==
    IF s # <<>> /\ is_whitespace(s[Len(s)])
    THEN trim_end(SubSeq(s, 1, Len(s) - 1))
    ELSE s

\* str::trim
trim(s) == trim_end(trim_start(s))

\* str::split(','): the pieces between the commas; n commas give n + 1 pieces
RECURSIVE split(_, _)
split(s, sep) ==
    IF \E i \in 1..Len(s) : s[i] = sep
    THEN LET i == CHOOSE k \in 1..Len(s) :
                      s[k] = sep /\ \A j \in 1..(k - 1) : s[j] # sep
         IN  <<SubSeq(s, 1, i - 1)>> \o split(SubSeq(s, i + 1, Len(s)), sep)
    ELSE <<s>>

\* the literal "empty"
EMPTY_TOKEN == <<"e", "m", "p", "t", "y">>

-----------------------------------------------------------------------------
(* usize and i32 arithmetic *)

Limb == 2 ^ 16

\* the usize whose value is the natural n < 2^31
usize_of(n) == <<0, 0, n \div Limb, n % Limb>>

\* the usize fits a plain natural
is_small(x) == x[1] = 0 /\ x[2] = 0 /\ x[3] < 2 ^ 15

nat_of(x) == x[3] * Limb + x[4]

usize_lt(x, y) ==
    \E i \in 1..4 : x[i] < y[i] /\ \A j \in 1..(i - 1) : x[j] = y[j]

\* the carries of x + y, limb by limb
add_carry(x, y) ==
    LET c4 == (x[4] + y[4]) \div Limb
        c3 == (x[3] + y[3] + c4) \div Limb
        c2 == (x[2] + y[2] + c3) \div Limb
        c1 == (x[1] + y[1] + c2) \div Limb
    IN  <<c1, c2, c3, c4>>

\* x + y modulo 2^64
wrapping_add(x, y) ==
    LET c == add_carry(x, y)
    IN  <<(x[1] + y[1] + c[2]) % Limb, (x[2] + y[2] + c[3]) % Limb,
          (x[3] + y[3] + c[4]) % Limb, (x[4] + y[4]) % Limb>>

add_overflows(x, y) == add_carry(x, y)[1] = 1

\* x - y modulo 2^64: x + (2^64 - 1 - y) + 1
wrapping_sub(x, y) ==
    wrapping_add(wrapping_add(x, [i \in 1..4 |-> Limb - 1 - y[i]]),
                 usize_of(1))

sub_overflows(x, y) == usize_lt(x, y)

\* `x as i32`: the low 32 bits, two's complement
as_i32(x) ==
    IF x[3] >= 2 ^ 15 THEN (x[3] - Limb) * Limb + x[4] ELSE x[3] * Limb + x[4]

\* a - b in i32 leaves the type, for 0 <= a < 2^31: a - b > 2^31 - 1
i32_sub_overflows(a, b) == b < 0 /\ b + 2147483647 < a

\* a - b modulo 2^32, as an i32
i32_wrapping_sub(a, b) ==
    IF i32_sub_overflows(a, b)
    THEN (a - 2147483647 - 1) - (b + 2147483647 + 1)
    ELSE a - b

-----------------------------------------------------------------------------
(* Tube: src/src/tube.rs *)

\* from_string that puts the empty cells after the tokens
from_string_pad_last(string_colours, tube_number) ==
    LET pieces == split(string_colours, ",")
        vec_string_colours ==
            [i \in 1..Len(pieces) |-> to_lowercase(trim(pieces[i]))]
        n == Len(vec_string_colours)
        padding == [i \in 1..(IF n < TUBE_SIZE THEN TUBE_SIZE - n ELSE 0) |-> None]
        cells == [i \in 1..n |->
                     IF vec_string_colours[i] = EMPTY_TOKEN
                        \/ vec_string_colours[i] = <<>>
                     THEN None
                     ELSE Some(vec_string_colours[i])]
    IN  [contents |-> cells \o padding, tube_number |-> tube_number]

\* Tube::from_string
from_string(string_colours, tube_number) ==
    LET pieces == split(string_colours, ",")
        vec_string_colours ==
            [i \in 1..Len(pieces) |-> to_lowercase(trim(pieces[i]))]
        n == Len(vec_string_colours)
        padding == [i \in 1..(IF n < TUBE_SIZE THEN TUBE_SIZE - n ELSE 0) |-> None]
        cells == [i \in 1..n |->
                     IF vec_string_colours[i] = EMPTY_TOKEN
                        \/ vec_string_colours[i] = <<>>
                     THEN None
                     ELSE Some(vec_string_colours[i])]
    IN  [contents |-> padding \o cells, tube_number |-> tube_number]

\* Tube::get_block_size, were it to pass over an empty cell instead of
\* stopping there
RECURSIVE get_block_size_over_gaps(_, _, _)
get_block_size_over_gaps(contents, start, colour) ==
    IF start < Len(contents) /\ contents[start + 1] = Some(colour)
    THEN 1 + get_block_size_over_gaps(contents, start + 1, colour)
    ELSE IF start < Len(contents) /\ contents[start + 1] = None
    THEN get_block_size_over_gaps(contents, start + 1, colour)
    ELSE 0

\* Tube::get_block_size: start is a Rust index
RECURSIVE get_block_size(_, _, _)
get_block_size(contents, start, colour) ==
    IF start < Len(contents) /\ contents[start + 1] = Some(colour)
    THEN 1 + get_block_size(contents, start + 1, colour)
    ELSE 0

\* Tube::get_top_colour: None, or Some(ColourPos) of the first occupied cell
get_top_colour(tube) ==
    IF \A i \in 1..Len(tube.contents) : tube.contents[i] = None
    THEN None
    ELSE LET i == CHOOSE k \in 1..Len(tube.contents) :
                      /\ tube.contents[k] # None
                      /\ \A j \in 1..(k - 1) : tube.contents[j] = None
             col == tube.contents[i][1]
         IN  Some([colour |-> col, pos |-> i - 1,
                   block_size |-> get_block_size(tube.contents, i - 1, col)])

\* `start` of Tube::is_valid_move_from
from_start(tube) ==
    IF get_top_colour(tube) = None THEN 0 ELSE get_top_colour(tube)[1].pos

\* Tube::is_valid_move_from panics: start + quantity overflows, debug build
is_valid_move_from_panics(bld, tube, a_move) ==
    /\ tube.tube_number = a_move.tube_from
    /\ bld = "debug"
    /\ add_overflows(usize_of(from_start(tube)), a_move.quantity)

\* Tube::is_valid_move_from, when it returns
is_valid_move_from(tube, a_move) ==
    LET start == from_start(tube)
        stop == wrapping_add(usize_of(start), a_move.quantity)
    IN  IF tube.tube_number # a_move.tube_from THEN FALSE
        ELSE IF usize_lt(usize_of(TUBE_SIZE), stop) THEN FALSE
        ELSE \A idx \in start..(nat_of(stop) - 1) :
                 tube.contents[idx + 1] = Some(a_move.colour)

\* (top_colour, start) of Tube::is_valid_move_to
to_start(tube, a_move) ==
    IF get_top_colour(tube) = None
    THEN <<a_move.colour, TUBE_SIZE>>
    ELSE <<get_top_colour(tube)[1].colour, get_top_colour(tube)[1].pos>>

\* Tube::is_valid_move_to panics: the i32 subtraction overflows, debug build
is_valid_move_to_panics(bld, tube, a_move) ==
    /\ tube.tube_number = a_move.tube_to
    /\ bld = "debug"
    /\ i32_sub_overflows(to_start(tube, a_move)[2], as_i32(a_move.quantity))

\* Tube::is_valid_move_to, when it returns
is_valid_move_to(tube, a_move) ==
    IF tube.tube_number # a_move.tube_to THEN FALSE
    ELSE IF i32_wrapping_sub(to_start(tube, a_move)[2],
                             as_i32(a_move.quantity)) < 0 THEN FALSE
    ELSE IF to_start(tube, a_move)[1] # a_move.colour THEN FALSE
    ELSE TRUE

\* the loop of Tube::pour_from, were it to pass over a cell of another
\* colour instead of stopping there
RECURSIVE pour_from_loop_passing(_, _, _, _)
pour_from_loop_passing(contents, i, qty, col) ==
    IF i > Len(contents) \/ qty = usize_of(0) THEN contents
    ELSE IF contents[i] = None
         THEN pour_from_loop_passing(contents, i + 1, qty, col)
    ELSE IF contents[i] = Some(col)
         THEN pour_from_loop_passing([contents EXCEPT ![i] = None], i + 1,
                                     wrapping_sub(qty, usize_of(1)), col)
    ELSE pour_from_loop_passing(contents, i + 1, qty, col)

\* the loop of Tube::pour_from from cell i (a TLA+ index) on, qty left to pour
RECURSIVE pour_from_loop(_, _, _, _)
pour_from_loop(contents, i, qty, col) ==
    IF i > Len(contents) \/ qty = usize_of(0) THEN contents
    ELSE IF contents[i] = None THEN pour_from_loop(contents, i + 1, qty, col)
    ELSE IF contents[i] = Some(col)
         THEN pour_from_loop([contents EXCEPT ![i] = None], i + 1,
                             wrapping_sub(qty, usize_of(1)), col)
    ELSE contents

\* Tube::pour_from
pour_from(tube, a_move) ==
    [tube EXCEPT !.contents =
        pour_from_loop(tube.contents, 1, a_move.quantity, a_move.colour)]

\* `end` of Tube::pour_to
pour_to_end(tube) ==
    IF get_top_colour(tube) = None THEN TUBE_SIZE ELSE get_top_colour(tube)[1].pos

\* Tube::pour_to panics: end - quantity underflows, debug build
pour_to_panics(bld, tube, a_move) ==
    /\ bld = "debug"
    /\ sub_overflows(usize_of(pour_to_end(tube)), a_move.quantity)

\* Tube::pour_to, when it returns
pour_to(tube, a_move) ==
    LET end == pour_to_end(tube)
        start == wrapping_sub(usize_of(end), a_move.quantity)
    IN  [tube EXCEPT !.contents =
            [i \in 1..Len(tube.contents) |->
                IF usize_lt(usize_of(end), start) \/ usize_of(end) = start
                THEN tube.contents[i]
                ELSE IF nat_of(start) <= i - 1 /\ i - 1 < end
                     THEN Some(a_move.colour)
                     ELSE tube.contents[i]]]

\* a tube counts only when every cell holds liquid
is_tube_full(tube) ==
    \A i \in 1..Len(tube.contents) : tube.contents[i] # None

\* Tube::is_tube_all_same_contents
is_tube_all_same_contents(tube) ==
    /\ tube.contents # <<>>
    /\ \A i \in 1..Len(tube.contents) : tube.contents[i] = tube.contents[1]

\* the decimal digits of a usize, as format!("{}", n) writes them
RECURSIVE digits(_)
digits(n) ==
    LET digit == <<"0", "1", "2", "3", "4", "5", "6", "7", "8", "9">>
    IN  IF n < 10 THEN <<digit[n + 1]>>
        ELSE digits(n \div 10) \o <<digit[(n % 10) + 1]>>

\* slice::join(", ") on the cells' names
RECURSIVE join_colours(_)
join_colours(names) ==
    IF names = <<>> THEN <<>>
    ELSE IF Len(names) = 1 THEN names[1]
    ELSE names[1] \o <<",", " ">> \o join_colours(Tail(names))

\* impl Display for Tube: "<tube_number + 1>: (<cell>, <cell>, ...)", an
\* empty cell written "empty"
fmt(tube) ==
    LET names == [i \in 1..Len(tube.contents) |->
                     IF tube.contents[i] = None THEN EMPTY_TOKEN
                     ELSE tube.contents[i][1]]
    IN  digits(tube.tube_number + 1) \o <<":", " ", "(">>
        \o join_colours(names) \o <<")">>

-----------------------------------------------------------------------------
(* Game: src/src/game.rs.  A Game value is the record of its four fields;  *)
(* Game.tubes[i] of the code is g.tubes[i + 1] here.                       *)

\* Game::default()
default_game ==
    [tubes |-> <<>>, moves |-> <<>>, current_move |-> 0, colours |-> {}]

\* Game::init_tubes panics
init_tubes_panics(num_of_tubes) == num_of_tubes < 4

\* init_tubes that numbers its tubes from 1
init_tubes_from_one(g, num_of_tubes) ==
    [g EXCEPT !.tubes =
        [i \in 1..num_of_tubes |-> from_string(<<>>, i)]]

\* Game::init_tubes, when it returns
init_tubes(g, num_of_tubes) ==
    [g EXCEPT !.tubes =
        [i \in 1..num_of_tubes |-> from_string(<<>>, i - 1)]]

\* Game::init_tube_contents panics: self.tubes[tube_num] is out of bounds
init_tube_contents_panics(g, tube_num) == tube_num >= Len(g.tubes)

\* init_tube_contents that numbers the tube it builds from 1
init_tube_contents_from_one(g, tube_num, contents) ==
    LET tube == from_string(contents, tube_num + 1)
    IN  [g EXCEPT
            !.tubes[tube_num + 1] = tube,
            !.colours = @ \cup {tube.contents[i][1] :
                                   i \in {k \in 1..Len(tube.contents) :
                                             tube.contents[k] # None}}]

\* Game::init_tube_contents, when it returns
init_tube_contents(g, tube_num, contents) ==
    LET tube == from_string(contents, tube_num)
    IN  [g EXCEPT
            !.tubes[tube_num + 1] = tube,
            !.colours = @ \cup {tube.contents[i][1] :
                                   i \in {k \in 1..Len(tube.contents) :
                                             tube.contents[k] # None}}]

\* colour_counts of Game::validate_setup: the colours met in the tubes, and
\* how many cells hold each
colour_counts(g) ==
    LET cells == UNION {{<<t, i>> : i \in {k \in 1..Len(g.tubes[t].contents) :
                                              g.tubes[t].contents[k] # None}} :
                        t \in 1..Len(g.tubes)}
        keys == {g.tubes[c[1]].contents[c[2]][1] : c \in cells}
    IN  [col \in keys |->
            Cardinality({c \in cells :
                            g.tubes[c[1]].contents[c[2]] = Some(col)})]

\* Game::validate_setup panics: tubes.len() - 2 underflows, debug build
validate_setup_panics(bld, g) == bld = "debug" /\ Len(g.tubes) < 2

\* Game::validate_setup, when it returns.  With fewer than two tubes a
\* release build compares 2^64 + len - 2 with colours.len(): never equal.
validate_setup(g) ==
    IF Len(g.tubes) < 2 \/ Len(g.tubes) - 2 # Cardinality(g.colours)
    THEN FALSE
    ELSE \A col \in DOMAIN colour_counts(g) : colour_counts(g)[col] = TUBE_SIZE

\* Game::validate_move panics: an index is out of bounds, or a tube's check
\* panics (is_valid_move_to runs only after is_valid_move_from returned true)
validate_move_panics(bld, g, a_move) ==
    \/ a_move.tube_from >= Len(g.tubes)
    \/ a_move.tube_to >= Len(g.tubes)
    \/ is_valid_move_from_panics(bld, g.tubes[a_move.tube_from + 1], a_move)
    \/ /\ is_valid_move_from(g.tubes[a_move.tube_from + 1], a_move)
       /\ is_valid_move_to_panics(bld, g.tubes[a_move.tube_to + 1], a_move)

\* Game::validate_move, when it returns
validate_move(g, a_move) ==
    /\ is_valid_move_from(g.tubes[a_move.tube_from + 1], a_move)
    /\ is_valid_move_to(g.tubes[a_move.tube_to + 1], a_move)

\* the Game after a pour_from run on every tube, not on the source alone
after_pour_from_every(g, a_move) ==
    [g EXCEPT !.tubes = [t \in 1..Len(g.tubes) |-> pour_from(g.tubes[t], a_move)]]

\* the tubes of Game::make_move after pour_from on the source
after_pour_from(g, a_move) ==
    [g EXCEPT !.tubes[a_move.tube_from + 1] = pour_from(@, a_move)]

\* Game::make_move panics
make_move_panics(bld, g, a_move) ==
    \/ validate_move_panics(bld, g, a_move)
    \/ /\ validate_move(g, a_move)
       /\ pour_to_panics(bld,
              after_pour_from(g, a_move).tubes[a_move.tube_to + 1], a_move)

\* make_move without its validate_move guard
make_move_unguarded(g, a_move) ==
    LET g1 == after_pour_from(g, a_move)
        g2 == [g1 EXCEPT !.tubes[a_move.tube_to + 1] = pour_to(@, a_move)]
        n == g.current_move + 1
    IN  [g2 EXCEPT
            !.current_move = n,
            !.moves = [k \in DOMAIN g.moves \cup {n} |->
                          IF k = n THEN a_move ELSE g.moves[k]]]

\* make_move recording its move at the counter's old value
make_move_old_key(g, a_move) ==
    IF ~validate_move(g, a_move) THEN g
    ELSE LET g1 == after_pour_from(g, a_move)
             g2 == [g1 EXCEPT !.tubes[a_move.tube_to + 1] = pour_to(@, a_move)]
             n == g.current_move
         IN  [g2 EXCEPT
                 !.current_move = n + 1,
                 !.moves = [k \in DOMAIN g.moves \cup {n} |->
                               IF k = n THEN a_move ELSE g.moves[k]]]

\* Game::make_move, when it returns
make_move(g, a_move) ==
    IF ~validate_move(g, a_move) THEN g
    ELSE LET g1 == after_pour_from(g, a_move)
             g2 == [g1 EXCEPT !.tubes[a_move.tube_to + 1] = pour_to(@, a_move)]
             n == g.current_move + 1
         IN  [g2 EXCEPT
                 !.current_move = n,
                 !.moves = [k \in DOMAIN g.moves \cup {n} |->
                               IF k = n THEN a_move ELSE g.moves[k]]]

\* Game::is_game_complete
is_game_complete(g) ==
    \A t \in 1..Len(g.tubes) : is_tube_all_same_contents(g.tubes[t])

\* the scan of one tube in Game::get_number_of_blocks, from cell i (a TLA+
\* index) on, without the increment that closes a run still open at the end
RECURSIVE tube_blocks_unclosed(_, _, _, _)
tube_blocks_unclosed(contents, i, current_colour, blocks) ==
    IF i > Len(contents) THEN blocks
    ELSE IF contents[i] # None
         THEN IF current_colour = None
              THEN tube_blocks_unclosed(contents, i + 1, contents[i], blocks)
              ELSE IF contents[i] = current_colour
                   THEN tube_blocks_unclosed(contents, i + 1, current_colour,
                                             blocks)
                   ELSE tube_blocks_unclosed(contents, i + 1, contents[i],
                                             blocks + 1)
         ELSE IF current_colour = None
              THEN tube_blocks_unclosed(contents, i + 1, None, blocks)
              ELSE tube_blocks_unclosed(contents, i + 1, None, blocks + 1)

\* the scan of one tube in Game::get_number_of_blocks, from cell i (a TLA+
\* index) on: current_colour is the run in progress, blocks the count so far
RECURSIVE tube_blocks(_, _, _, _)
tube_blocks(contents, i, current_colour, blocks) ==
    IF i > Len(contents)
    THEN IF current_colour # None THEN blocks + 1 ELSE blocks
    ELSE IF contents[i] # None
         THEN IF current_colour = None
              THEN tube_blocks(contents, i + 1, contents[i], blocks)
              ELSE IF contents[i] = current_colour
                   THEN tube_blocks(contents, i + 1, current_colour, blocks)
                   ELSE tube_blocks(contents, i + 1, contents[i], blocks + 1)
         ELSE IF current_colour = None
              THEN tube_blocks(contents, i + 1, None, blocks)
              ELSE tube_blocks(contents, i + 1, None, blocks + 1)

\* the outer loop of Game::get_number_of_blocks from tube t (a TLA+ index) on
RECURSIVE blocks_from(_, _, _)
blocks_from(g, t, blocks) ==
    IF t > Len(g.tubes) THEN blocks
    ELSE blocks_from(g, t + 1, tube_blocks(g.tubes[t].contents, 1, None, blocks))

\* Game::get_number_of_blocks
get_number_of_blocks(g) == blocks_from(g, 1, 0)

-----------------------------------------------------------------------------
(* Solver: src/src/solver.rs.  A Solver value is the record of its three   *)
(* fields.                                                                 *)

\* Solver::new does not return.  number_of_blocks - (tubes.len() - 2)
\* underflows: a debug build panics; a release build wraps, and when the
\* wrapped count is near 2^64 the loop that pushes the buckets exhausts
\* memory.  With fewer than two tubes the two wraps of a release build
\* cancel and the count is number_of_blocks + 2 - tubes.len().
solver_new_panics(bld, current_state) ==
    LET number_of_blocks == get_number_of_blocks(current_state)
        len == Len(current_state.tubes)
    IN  /\ number_of_blocks + 2 # len
        /\ IF bld = "debug"
           THEN len < 2 \/ number_of_blocks < len - 2
           ELSE len >= 2 /\ number_of_blocks < len - 2

\* Solver::new, when it returns
solver_new(current_state) ==
    LET number_of_blocks == get_number_of_blocks(current_state)
        len == Len(current_state.tubes)
    IN  [states |-> IF number_of_blocks + 2 = len THEN <<>>
                    ELSE [b \in 1..(number_of_blocks + 2 - len) |->
                             IF b = 1 THEN <<current_state>> ELSE <<>>],
         current_state |-> current_state,
         current_block_count |-> number_of_blocks]

\* `TUBE_SIZE - from_top_colour.block_size` of Solver::get_possible_moves
\* underflows (a block longer than TUBE_SIZE)
skip_test_overflows(from_top_colour) == from_top_colour.block_size > TUBE_SIZE

\* `TUBE_SIZE - from_top_colour.block_size == from_top_colour.pos`; the
\* wrapped difference of a release build is near 2^64 and equals no position
skip_test(from_top_colour) ==
    /\ ~skip_test_overflows(from_top_colour)
    /\ TUBE_SIZE - from_top_colour.block_size = from_top_colour.pos

\* min of std::cmp
min(a, b) == IF a <= b THEN a ELSE b

\* the body of the inner loop of Solver::get_possible_moves for one pair of
\* Rust indices; the source has the top segment from_top_colour: the moves
\* it pushes
pair_moves(g, from_idx, from_top_colour, to_idx) ==
    LET to_top_colour == get_top_colour(g.tubes[to_idx + 1])
    IN  IF from_idx = to_idx THEN <<>>
        ELSE IF to_top_colour = None
             THEN IF skip_test(from_top_colour) THEN <<>>
                  ELSE << [tube_from |-> from_idx, tube_to |-> to_idx,
                           colour |-> from_top_colour.colour,
                           quantity |-> usize_of(from_top_colour.block_size)] >>
        ELSE IF to_top_colour[1].colour = from_top_colour.colour
             THEN << [tube_from |-> from_idx, tube_to |-> to_idx,
                      colour |-> from_top_colour.colour,
                      quantity |-> usize_of(min(from_top_colour.block_size,
                                                to_top_colour[1].pos))] >>
        ELSE <<>>

\* the inner loop of Solver::get_possible_moves from to_idx on
RECURSIVE inner_moves(_, _, _, _)
inner_moves(g, from_idx, from_top_colour, to_idx) ==
    IF to_idx >= Len(g.tubes) THEN <<>>
    ELSE pair_moves(g, from_idx, from_top_colour, to_idx)
         \o inner_moves(g, from_idx, from_top_colour, to_idx + 1)

\* the outer loop of Solver::get_possible_moves from from_idx on: it ends at
\* the first tube that has no top segment (`break`)
RECURSIVE outer_moves(_, _)
outer_moves(g, from_idx) ==
    IF from_idx >= Len(g.tubes) THEN <<>>
    ELSE IF get_top_colour(g.tubes[from_idx + 1]) = None THEN <<>>
    ELSE inner_moves(g, from_idx, get_top_colour(g.tubes[from_idx + 1])[1], 0)
         \o outer_moves(g, from_idx + 1)

\* the outer loop meets, from from_idx on, a source whose skip test
\* underflows on an empty destination
RECURSIVE outer_overflows(_, _)
outer_overflows(g, from_idx) ==
    IF from_idx >= Len(g.tubes) THEN FALSE
    ELSE IF get_top_colour(g.tubes[from_idx + 1]) = None THEN FALSE
    ELSE \/ /\ skip_test_overflows(get_top_colour(g.tubes[from_idx + 1])[1])
            /\ \E to_idx \in 0..(Len(g.tubes) - 1) :
                  /\ to_idx # from_idx
                  /\ get_top_colour(g.tubes[to_idx + 1]) = None
         \/ outer_overflows(g, from_idx + 1)

\* Solver::get_possible_moves panics: the skip test underflows, debug build
get_possible_moves_panics(bld, sv) ==
    bld = "debug" /\ outer_overflows(sv.current_state, 0)

\* Solver::get_possible_moves, when it returns: a Vec<Move>
get_possible_moves(sv) == outer_moves(sv.current_state, 0)

\* Solver::peek_move panics
peek_move_panics(bld, sv, possible_move) ==
    make_move_panics(bld, sv.current_state, possible_move)

\* Solver::peek_move, when it returns
peek_move(sv, possible_move) ==
    IF ~validate_move(sv.current_state, possible_move)
    THEN sv.current_state
    ELSE make_move(sv.current_state, possible_move)

\* Solver::does_move_reduce_block_count panics
does_move_reduce_block_count_panics(bld, sv, possible_move) ==
    peek_move_panics(bld, sv, possible_move)

\* Solver::does_move_reduce_block_count, when it returns
does_move_reduce_block_count(sv, possible_move) ==
    sv.current_block_count
        > get_number_of_blocks(peek_move(sv, possible_move))

-----------------------------------------------------------------------------
(* Inputs and bounds *)

\* the moves one run applies at most
MaxMoves == 2

RED == <<"r">>

BLUE == <<"b">>

\* "", "r,r", "b,b", "b,r,b,r", and ",,,," (five blank tokens)
D_EMPTY == <<>>

D_RR == <<"r", ",", "r">>

D_BB == <<"b", ",", "b">>

D_BRBR == <<"b", ",", "r", ",", "b", ",", "r">>

D_BLANK5 == <<",", ",", ",", ",">>

\* the tube descriptions init_tube_contents is given
Descriptions == {D_EMPTY, D_RR, D_BB, D_BRBR, D_BLANK5}

\* the set-ups Repl::start is given, one description per tube: the spec's
\* end-to-end game, a game with a five-token last tube, and three tubes
Setups ==
    { <<D_BRBR, D_RR, D_BB, D_EMPTY>>,
      <<D_RR, D_RR, D_BB, D_BLANK5>>,
      <<D_RR, D_BB, D_EMPTY>> }

\* 2^32 and 2^64 - 1
TWO_POW_32 == <<0, 1, 0, 0>>

USIZE_MAX == <<Limb - 1, Limb - 1, Limb - 1, Limb - 1>>

Quantities ==
    {usize_of(0), usize_of(1), usize_of(2), usize_of(TUBE_SIZE),
     usize_of(TUBE_SIZE + 1), TWO_POW_32, USIZE_MAX}

\* the quantities of the moves that are made: a move of quantity 0, and one
\* the checks of both tubes refuse, change no tube
PlayQuantities == {usize_of(1), usize_of(2), USIZE_MAX}

\* tube indices: those of a 4-tube game and one past them
TubeIndices == 0..4

\* the moves every state is examined with
MoveInputs ==
    [tube_from : TubeIndices, tube_to : TubeIndices,
     colour : {RED, BLUE}, quantity : Quantities]

\* the moves that are made
PlayMoves ==
    [tube_from : TubeIndices, tube_to : TubeIndices,
     colour : {RED, BLUE}, quantity : PlayQuantities]

\* the numbers of tubes init_tubes is asked for
TubeCounts == {3, 4, 5}

\* "r,r,r,r" and "r,,b"
D_RRRR == <<"r", ",", "r", ",", "r", ",", "r">>

D_R_B == <<"r", ",", ",", "b">>

\* the set-ups of the games the checks of a move are tried on
QuerySetups ==
    { <<D_BRBR, D_RR, D_BB, D_EMPTY>>,
      <<D_RR, D_RR, D_BB, D_BLANK5>>,
      <<D_RRRR, D_R_B, D_EMPTY, D_EMPTY>> }

-----------------------------------------------------------------------------
(* The state machine *)

\* the Game the variables hold
Game ==
    [tubes |-> tubes, moves |-> moves, current_move |-> current_move,
     colours |-> colours]

SetGame(g) ==
    /\ tubes' = g.tubes
    /\ moves' = g.moves
    /\ current_move' = g.current_move
    /\ colours' = g.colours

\* the call panics: the program ends where it is
Panic(op) ==
    /\ panicked' = TRUE
    /\ last' = [op |-> op, result |-> "panic"]
    /\ UNCHANGED <<tubes, moves, current_move, colours, build, applied, solver>>

Init ==
    /\ tubes = default_game.tubes
    /\ moves = default_game.moves
    /\ current_move = default_game.current_move
    /\ colours = default_game.colours
    /\ build \in {"debug", "release"}
    /\ panicked = FALSE
    /\ last = [op |-> "new", result |-> "done"]
    /\ applied = <<>>
    /\ solver = None

\* Game::init_tubes(num_of_tubes)
InitTubes(num_of_tubes) ==
    /\ ~panicked
    /\ IF init_tubes_panics(num_of_tubes)
       THEN Panic("init_tubes")
       ELSE /\ SetGame(init_tubes(Game, num_of_tubes))
            /\ last' = [op |-> "init_tubes", result |-> "done"]
            /\ UNCHANGED <<build, panicked, applied, solver>>

\* Game::init_tube_contents(tube_num, contents)
InitTubeContents(tube_num, contents) ==
    /\ ~panicked
    /\ IF init_tube_contents_panics(Game, tube_num)
       THEN Panic("init_tube_contents")
       ELSE /\ SetGame(init_tube_contents(Game, tube_num, contents))
            /\ last' = [op |-> "init_tube_contents", result |-> "done"]
            /\ UNCHANGED <<build, panicked, applied, solver>>

\* Game::validate_setup()
ValidateSetup ==
    /\ ~panicked
    /\ IF validate_setup_panics(build, Game)
       THEN Panic("validate_setup")
       ELSE /\ last' = [op |-> "validate_setup",
                        result |-> IF validate_setup(Game) THEN "true"
                                                           ELSE "false"]
            /\ UNCHANGED <<tubes, moves, current_move, colours, build,
                           panicked, applied, solver>>

\* Game::make_move(a_move)
MakeMove(a_move) ==
    /\ ~panicked
    /\ current_move < MaxMoves
    /\ IF make_move_panics(build, Game, a_move)
       THEN Panic("make_move")
       ELSE /\ SetGame(make_move(Game, a_move))
            /\ IF validate_move(Game, a_move)
               THEN /\ last' = [op |-> "make_move", result |-> "applied"]
                    /\ applied' = Append(applied, a_move)
               ELSE /\ last' = [op |-> "make_move", result |-> "ignored"]
                    /\ applied' = applied
            /\ UNCHANGED <<build, panicked, solver>>

\* the calls of Repl::start after init_tubes: init_tube_contents for every
\* tube index in order
RECURSIVE start_contents(_, _, _)
start_contents(g, inputs, idx) ==
    IF idx >= Len(inputs) THEN g
    ELSE start_contents(init_tube_contents(g, idx, inputs[idx + 1]),
                        inputs, idx + 1)

\* Repl::start, given one line per tube
Start(inputs) ==
    /\ ~panicked
    /\ tubes = <<>>
    /\ IF init_tubes_panics(Len(inputs))
       THEN Panic("start")
       ELSE /\ SetGame(start_contents(init_tubes(Game, Len(inputs)),
                                      inputs, 0))
            /\ last' = [op |-> "start", result |-> "done"]
            /\ UNCHANGED <<build, panicked, applied, solver>>

\* play: a game is set up once, then moves are made
Next ==
    \/ \E inputs \in Setups : Start(inputs)
    \/ \E a_move \in PlayMoves : MakeMove(a_move)

Spec == Init /\ [][Next]_vars

\* set-up: tubes are created and filled in any order, and the set-up checked
NextSetup ==
    \/ \E n \in TubeCounts : InitTubes(n)
    \/ \E i \in TubeIndices, d \in Descriptions : InitTubeContents(i, d)
    \/ ValidateSetup

SpecSetup == Init /\ [][NextSetup]_vars

\* the Game Repl::start leaves, from a new Game
started(inputs) ==
    start_contents(init_tubes(default_game, Len(inputs)), inputs, 0)

\* a call on the move held in last.a_move ends
Answer(op, tube, result) ==
    /\ last' = [op |-> op, tube |-> tube, a_move |-> last.a_move,
                result |-> result]
    /\ panicked' = (result = "panic")
    /\ UNCHANGED <<tubes, moves, current_move, colours, build, applied, solver>>

\* a set-up game and a move to try on it
InitQuery ==
    /\ \E inputs \in QuerySetups :
          /\ tubes = started(inputs).tubes
          /\ colours = started(inputs).colours
    /\ moves = default_game.moves
    /\ current_move = default_game.current_move
    /\ build \in {"debug", "release"}
    /\ panicked = FALSE
    /\ last \in [op : {"input"}, tube : {0}, a_move : MoveInputs,
                 result : {"none"}]
    /\ applied = <<>>
    /\ solver = None

\* Tube::is_valid_move_from(a_move) on tube number tube
IsValidMoveFrom(tube) ==
    /\ ~panicked
    /\ Answer("is_valid_move_from", tube,
              IF is_valid_move_from_panics(build, tubes[tube + 1], last.a_move)
              THEN "panic"
              ELSE IF is_valid_move_from(tubes[tube + 1], last.a_move)
                   THEN "true" ELSE "false")

\* Tube::is_valid_move_to(a_move) on tube number tube
IsValidMoveTo(tube) ==
    /\ ~panicked
    /\ Answer("is_valid_move_to", tube,
              IF is_valid_move_to_panics(build, tubes[tube + 1], last.a_move)
              THEN "panic"
              ELSE IF is_valid_move_to(tubes[tube + 1], last.a_move)
                   THEN "true" ELSE "false")

\* Game::validate_move(a_move)
ValidateMove ==
    /\ ~panicked
    /\ Answer("validate_move", 0,
              IF validate_move_panics(build, Game, last.a_move)
              THEN "panic"
              ELSE IF validate_move(Game, last.a_move)
                   THEN "true" ELSE "false")

\* the checks of a move, tried on a set-up game
NextQuery ==
    \/ \E t \in 0..(Len(tubes) - 1) : IsValidMoveFrom(t)
    \/ \E t \in 0..(Len(tubes) - 1) : IsValidMoveTo(t)
    \/ ValidateMove

SpecQuery == InitQuery /\ [][NextQuery]_vars

-----------------------------------------------------------------------------
(* The Solver and the Game's read-only queries, on a Game already built *)

\* "b,b,b,b", "r,r,r,r," (five tokens, the last blank) and "r,r,r,r,r"
D_BBBB == <<"b", ",", "b", ",", "b", ",", "b">>

D_RRRR_BLANK == <<"r", ",", "r", ",", "r", ",", "r", ",">>

D_RRRRR == <<"r", ",", "r", ",", "r", ",", "r", ",", "r">>

\* the set-ups of the games handed to the Solver: the spec's end-to-end
\* game, a solved game, two half-filled tubes of one colour, one colour
\* only, an empty tube first, liquid over an empty cell, five-token tubes,
\* no liquid at all, and the end-to-end game with its empty tube first
SolverSetups ==
    { <<D_BRBR, D_RR, D_BB, D_EMPTY>>,
      <<D_RRRR, D_BBBB, D_EMPTY, D_EMPTY>>,
      <<D_RR, D_RR, D_EMPTY, D_EMPTY>>,
      <<D_RRRR, D_EMPTY, D_EMPTY, D_EMPTY>>,
      <<D_EMPTY, D_RR, D_RR, D_BBBB>>,
      <<D_RRRR, D_R_B, D_EMPTY, D_EMPTY>>,
      <<D_RR, D_RR, D_BB, D_BLANK5>>,
      <<D_RRRR_BLANK, D_BBBB, D_EMPTY, D_EMPTY>>,
      <<D_RRRRR, D_BB, D_BB, D_EMPTY>>,
      <<D_EMPTY, D_EMPTY, D_EMPTY, D_EMPTY>>,
      <<D_EMPTY, D_BRBR, D_RR, D_BB>> }

\* the first move of the spec's end-to-end game
FIRST_MOVE ==
    [tube_from |-> 0, tube_to |-> 2, colour |-> BLUE, quantity |-> usize_of(1)]

\* the Games handed to the Solver: a new Game, the set-up games, and a game
\* one move into play
SolverGames ==
    {default_game}
    \cup {started(inputs) : inputs \in SolverSetups}
    \cup {make_move(started(<<D_BRBR, D_RR, D_BB, D_EMPTY>>), FIRST_MOVE)}

\* the moves the Solver is asked about
SolverMoves ==
    [tube_from : TubeIndices, tube_to : TubeIndices, colour : {RED, BLUE},
     quantity : {usize_of(0), usize_of(1), usize_of(2), USIZE_MAX}]

\* a call that reads the Game or the Solver ends; nothing else changes
Reply(op, panics, result) ==
    /\ last' = [op |-> op, a_move |-> last.a_move,
                result |-> IF panics THEN "panic" ELSE result]
    /\ panicked' = panics
    /\ UNCHANGED <<tubes, moves, current_move, colours, build, applied>>

InitSolver ==
    /\ \E g \in SolverGames : /\ tubes = g.tubes
                              /\ moves = g.moves
                              /\ current_move = g.current_move
                              /\ colours = g.colours
    /\ build \in {"debug", "release"}
    /\ panicked = FALSE
    /\ last \in [op : {"input"}, a_move : SolverMoves, result : {"none"}]
    /\ applied = <<>>
    /\ solver = None

\* Game::is_game_complete()
IsGameComplete ==
    /\ ~panicked
    /\ Reply("is_game_complete", FALSE, is_game_complete(Game))
    /\ UNCHANGED solver

\* Game::get_number_of_blocks()
GetNumberOfBlocks ==
    /\ ~panicked
    /\ Reply("get_number_of_blocks", FALSE, get_number_of_blocks(Game))
    /\ UNCHANGED solver

\* Solver::new(&game)
SolverNew ==
    /\ ~panicked
    /\ solver = None
    /\ Reply("new", solver_new_panics(build, Game), "done")
    /\ solver' = IF solver_new_panics(build, Game) THEN None
                 ELSE Some(solver_new(Game))

\* Solver::get_possible_moves()
GetPossibleMoves ==
    /\ ~panicked
    /\ solver # None
    /\ Reply("get_possible_moves",
             get_possible_moves_panics(build, solver[1]),
             get_possible_moves(solver[1]))
    /\ UNCHANGED solver

\* Solver::does_move_reduce_block_count(&a_move)
DoesMoveReduceBlockCount ==
    /\ ~panicked
    /\ solver # None
    /\ Reply("does_move_reduce_block_count",
             does_move_reduce_block_count_panics(build, solver[1],
                                                 last.a_move),
             does_move_reduce_block_count(solver[1], last.a_move))
    /\ UNCHANGED solver

\* Solver::peek_move(&a_move)
PeekMove ==
    /\ ~panicked
    /\ solver # None
    /\ Reply("peek_move",
             peek_move_panics(build, solver[1], last.a_move),
             peek_move(solver[1], last.a_move))
    /\ UNCHANGED solver

NextSolver ==
    \/ IsGameComplete
    \/ GetNumberOfBlocks
    \/ SolverNew
    \/ GetPossibleMoves
    \/ DoesMoveReduceBlockCount
    \/ PeekMove

SpecSolver == InitSolver /\ [][NextSolver]_vars

-----------------------------------------------------------------------------
(* Tube construction from a description *)

\* the tokens a description is made of at most
MaxTokens == 5

\* "", " ", "R", " b " and "Empty"
Tokens ==
    { <<>>, <<" ">>, <<"R">>, <<" ", "b", " ">>,
      <<"E", "m", "p", "t", "y">> }

\* the tokens of toks joined with commas
RECURSIVE join(_)
join(toks) ==
    IF Len(toks) = 1 THEN toks[1]
    ELSE toks[1] \o <<",">> \o join(Tail(toks))

\* the descriptions Tube::from_string is given
TubeStrings ==
    UNION {{join(toks) : toks \in [1..k -> Tokens]} : k \in 1..MaxTokens}

InitTube ==
    /\ tubes = default_game.tubes
    /\ moves = default_game.moves
    /\ current_move = default_game.current_move
    /\ colours = default_game.colours
    /\ build \in {"debug", "release"}
    /\ panicked = FALSE
    /\ last \in [op : {"input"}, string_colours : TubeStrings,
                 tube_number : {0, 3}, result : {"none"}]
    /\ applied = <<>>
    /\ solver = None

\* Tube::from_string(string_colours, tube_number)
FromString ==
    /\ last.op = "input"
    /\ last' = [last EXCEPT
                   !.op = "from_string",
                   !.result = from_string(last.string_colours,
                                          last.tube_number)]
    /\ UNCHANGED <<tubes, moves, current_move, colours, build, panicked,
                   applied, solver>>

\* the tube just built is rendered, a tube with the same number is built
\* from the rendering, and that tube is rendered again
RenderAndRebuild ==
    /\ last.op = "from_string"
    /\ last' = [last EXCEPT
                   !.op = "fmt",
                   !.result =
                      [tube |-> last.result,
                       text |-> fmt(last.result),
                       rebuilt |-> from_string(fmt(last.result),
                                               last.result.tube_number),
                       text_again |->
                          fmt(from_string(fmt(last.result),
                                          last.result.tube_number))]]
    /\ UNCHANGED <<tubes, moves, current_move, colours, build, panicked,
                   applied, solver>>

\* Tube::get_top_colour() on the tube just built
GetTopColour ==
    /\ last.op = "from_string"
    /\ last' = [last EXCEPT
                   !.op = "get_top_colour",
                   !.result = [tube |-> last.result,
                               top |-> get_top_colour(last.result)]]
    /\ UNCHANGED <<tubes, moves, current_move, colours, build, panicked,
                   applied, solver>>

NextTube == FromString \/ RenderAndRebuild \/ GetTopColour

SpecTube == InitTube /\ [][NextTube]_vars

-----------------------------------------------------------------------------
(* A game whose tubes are filled, refilled and played in any order *)

\* the descriptions the tubes are refilled with
GameDescriptions == {D_RR, D_BB, D_EMPTY}

\* the tubes that are refilled: two tubes of the game, and 5, which is no
\* tube of a game of 4 or 5 tubes
GameTubeIndices == {0, 1, 5}

\* the moves that are made: one cell at a time, among tubes 0, 1, 2
GameMoves ==
    [tube_from : {0, 1}, tube_to : {1, 2}, colour : {RED, BLUE},
     quantity : {usize_of(1)}]

NextGame ==
    \/ \E n \in {4, 5} : InitTubes(n)
    \/ \E i \in GameTubeIndices, d \in GameDescriptions :
          InitTubeContents(i, d)
    \/ \E a_move \in GameMoves : MakeMove(a_move)

SpecGame == Init /\ [][NextGame]_vars

-----------------------------------------------------------------------------
(* The end of a game: a set-up game is played with any moves *)

\* the set-ups played from: the spec's end-to-end game, a solved game, a
\* game one move from solved, liquid over an empty cell, five-token tubes
EndgameSetups ==
    { <<D_BRBR, D_RR, D_BB, D_EMPTY>>,
      <<D_RRRR, D_BBBB, D_EMPTY, D_EMPTY>>,
      <<D_EMPTY, D_RR, D_RR, D_BBBB>>,
      <<D_RRRR, D_R_B, D_EMPTY, D_EMPTY>>,
      <<D_RR, D_RR, D_BB, D_BLANK5>>,
      <<D_RRRR_BLANK, D_BBBB, D_EMPTY, D_EMPTY>> }

\* the moves that are made: every pair of tubes, quantity 0 and 2^64 - 1
\* among the quantities
EndgameMoves ==
    [tube_from : 0..3, tube_to : 0..3, colour : {RED, BLUE},
     quantity : {usize_of(0), usize_of(1), usize_of(2), USIZE_MAX}]

\* a game as Repl::start leaves it
InitEndgame ==
    /\ \E inputs \in EndgameSetups : /\ tubes = started(inputs).tubes
                                     /\ colours = started(inputs).colours
    /\ moves = default_game.moves
    /\ current_move = default_game.current_move
    /\ build \in {"debug", "release"}
    /\ panicked = FALSE
    /\ last = [op |-> "start", result |-> "done"]
    /\ applied = <<>>
    /\ solver = None

NextEndgame == \E a_move \in EndgameMoves : MakeMove(a_move)

SpecEndgame == InitEndgame /\ [][NextEndgame]_vars

-----------------------------------------------------------------------------
(* Notions the claims are stated with *)

\* the cells of tube t (a TLA+ index) of g that hold colour col
cells_of(g, t, col) ==
    {i \in 1..Len(g.tubes[t].contents) : g.tubes[t].contents[i] = Some(col)}

\* how many cells of g hold colour col
RECURSIVE count_from(_, _, _)
count_from(g, t, col) ==
    IF t > Len(g.tubes) THEN 0
    ELSE Cardinality(cells_of(g, t, col)) + count_from(g, t + 1, col)

colour_count(g, col) == count_from(g, 1, col)

\* the occupied cells of a tube (TLA+ indices)
occupied(tube) == {i \in 1..Len(tube.contents) : tube.contents[i] # None}

\* no liquid floats: the empty cells are at the lowest indices and the
\* occupied cells are one run that ends at Rust index TUBE_SIZE - 1
no_float(tube) ==
    /\ \A e \in (1..Len(tube.contents)) \ occupied(tube) :
          \A o \in occupied(tube) : e < o
    /\ occupied(tube) # {} =>
          \E first \in 1..TUBE_SIZE : occupied(tube) = first..TUBE_SIZE

all_no_float(ts) == \A t \in 1..Len(ts) : no_float(ts[t])

\* the step is a call of make_move that returned
MakeMoveReturned == last'.op = "make_move" /\ ~panicked'

\* the step is a call of make_move that found its move legal and applied it
MakeMoveApplied == MakeMoveReturned /\ last'.result = "applied"

\* the move the step applied
AppliedMove == applied'[Len(applied')]

GameUnchanged ==
    /\ tubes' = tubes
    /\ moves' = moves
    /\ current_move' = current_move
    /\ colours' = colours

-----------------------------------------------------------------------------
(* C1 *)

\* C1: whenever make_move is called with a move that validate_move finds not
\* legal, it returns and leaves every tube's cells, the move counter, the
\* move log and the colour set exactly as they were.
C1_IllegalMoveChangesNothing ==
    [][(last'.op = "make_move" /\ last'.result = "ignored")
       => (GameUnchanged /\ ~panicked')]_vars

\* an illegal move was made on a game that has a move in its log
C1_Witness ==
    /\ last = [op |-> "make_move", result |-> "ignored"]
    /\ current_move >= 1

-----------------------------------------------------------------------------
(* C2 *)

\* what C2 says of the source tube: the q cells from its top-segment
\* position on are emptied, the others keep their value
C2_source_effect(before, after, q) ==
    IF q = 0 THEN after = before
    ELSE /\ get_top_colour(before) # None
         /\ LET p == get_top_colour(before)[1].pos
            IN  after.contents =
                    [i \in 1..Len(before.contents) |->
                        IF p < i /\ i <= p + q THEN None
                                               ELSE before.contents[i]]

\* what C2 says of the destination tube: the q cells mouth-ward of its top
\* segment, or its bottom-most q cells when it was empty, hold the colour,
\* the others keep their value
C2_destination_effect(before, after, q, col) ==
    LET n == Len(before.contents)
        p == IF get_top_colour(before) = None
             THEN n
             ELSE get_top_colour(before)[1].pos
    IN  /\ q <= p
        /\ after.contents =
               [i \in 1..n |->
                   IF p - q < i /\ i <= p THEN Some(col)
                                          ELSE before.contents[i]]

\* C2: every legal move (from, to, c, q) with from # to empties exactly the q
\* cells of the source from its top-segment position on and makes exactly q
\* cells of the destination hold c (those mouth-ward of its top segment, or
\* its bottom-most q cells when it was entirely empty); the move counter
\* grows by 1 and the log entry at the new counter value is the move.
C2_LegalMoveEffect ==
    [][(MakeMoveApplied /\ AppliedMove.tube_from # AppliedMove.tube_to)
       => LET m == AppliedMove
          IN  /\ is_small(m.quantity)
              /\ C2_source_effect(tubes[m.tube_from + 1],
                                  tubes'[m.tube_from + 1],
                                  nat_of(m.quantity))
              /\ C2_destination_effect(tubes[m.tube_to + 1],
                                       tubes'[m.tube_to + 1],
                                       nat_of(m.quantity), m.colour)
              /\ current_move' = current_move + 1
              /\ current_move' \in DOMAIN moves'
              /\ moves'[current_move'] = m]_vars

-----------------------------------------------------------------------------
(* C3 *)

\* C3: validate_move returns false for every move whose source index equals
\* its destination index.
C3_SameTubeMoveIsIllegal ==
    (last.op = "validate_move"
     /\ last.a_move.tube_from = last.a_move.tube_to)
    => last.result # "true"

-----------------------------------------------------------------------------
(* C4 *)

\* C4: when no tube has floating liquid before a call of make_move, none has
\* after it.
C4_NoFloatUnderPlay ==
    [][(MakeMoveReturned /\ all_no_float(tubes)) => all_no_float(tubes')]_vars

-----------------------------------------------------------------------------
(* C5 *)

\* C5: a call of make_move leaves the number of cells holding each colour,
\* summed over all tubes, as it was.
C5_Conservation ==
    [][MakeMoveReturned
       => \A col \in {RED, BLUE} :
              colour_count(Game', col) = colour_count(Game, col)]_vars

-----------------------------------------------------------------------------
(* C6 *)

\* C6: the move log's keys are exactly 1..current_move, the counter never
\* decreases, the entry at key k is the k-th applied move, and an entry once
\* recorded is never changed or removed.
C6_MoveLogAppendOnly ==
    [][/\ DOMAIN moves = 1..current_move
       /\ DOMAIN moves' = 1..current_move'
       /\ current_move' >= current_move
       /\ current_move' = Len(applied')
       /\ \A k \in 1..current_move' : moves'[k] = applied'[k]
       /\ \A k \in DOMAIN moves : k \in DOMAIN moves' /\ moves'[k] = moves[k]
      ]_vars

\* two different moves were applied, and a later call was ignored
C6_Witness ==
    /\ current_move = 2
    /\ moves[1] # moves[2]
    /\ Len(applied) = 2

-----------------------------------------------------------------------------
(* C7 *)

\* what C7 says is_valid_move_from returns for a tube and a move
C7_expected(tube, a_move) ==
    /\ tube.tube_number = a_move.tube_from
    /\ get_top_colour(tube) # None
    /\ is_small(a_move.quantity)
    /\ LET p == get_top_colour(tube)[1].pos
           q == nat_of(a_move.quantity)
       IN  /\ p + q <= TUBE_SIZE
           /\ \A i \in (p + 1)..(p + q) : tube.contents[i] = Some(a_move.colour)

\* C7: is_valid_move_from returns true if and only if the tube is the move's
\* source, has a top segment, position + quantity <= TUBE_SIZE and every cell
\* in [position, position + quantity) holds the move's colour.
C7_ValidMoveFrom ==
    last.op = "is_valid_move_from"
    => (last.result = "true"
        <=> C7_expected(tubes[last.tube + 1], last.a_move))

-----------------------------------------------------------------------------
(* C8 *)

\* what C8 says is_valid_move_to returns for a tube and a move
C8_expected(tube, a_move) ==
    /\ tube.tube_number = a_move.tube_to
    /\ is_small(a_move.quantity)
    /\ IF get_top_colour(tube) # None
       THEN /\ get_top_colour(tube)[1].colour = a_move.colour
            /\ get_top_colour(tube)[1].pos >= nat_of(a_move.quantity)
       ELSE nat_of(a_move.quantity) <= TUBE_SIZE

\* C8: is_valid_move_to returns true if and only if the tube is the move's
\* destination and either its top segment has the move's colour and a
\* position >= quantity, or it is entirely empty and quantity <= TUBE_SIZE.
C8_ValidMoveTo ==
    last.op = "is_valid_move_to"
    => (last.result = "true"
        <=> C8_expected(tubes[last.tube + 1], last.a_move))

-----------------------------------------------------------------------------
(* C9 *)

\* C9: make_move (and the validate_move it starts with) never ends the
\* program, whatever the move.
C9_MoveCallsNeverPanic == ~(panicked /\ last.op = "make_move")

-----------------------------------------------------------------------------
(* C10 *)

\* C10: validate_setup returns true if and only if the number of tubes minus
\* 2 is the number of colours of the Game and every one of those colours
\* occurs exactly TUBE_SIZE times in the tubes.
C10_ValidateSetup ==
    (last.op = "validate_setup" /\ ~panicked)
    => (last.result = "true"
        <=> /\ Len(tubes) - 2 = Cardinality(colours)
            /\ \A col \in colours : colour_count(Game, col) = TUBE_SIZE)

-----------------------------------------------------------------------------
(* C11, C12 *)

\* n tubes, every cell of every tube empty, tube i carrying index i
empty_tubes(n) ==
    [i \in 1..n |-> [contents |-> [k \in 1..TUBE_SIZE |-> None],
                     tube_number |-> i - 1]]

\* C11: init_tubes(n) with n >= 4, called on a Game in any state, leaves the
\* Game with an empty move log, move counter 0 and an empty colour set, in
\* addition to n empty tubes.
C11_InitTubesResets ==
    [][\A n \in TubeCounts :
          (n >= 4 /\ InitTubes(n))
          => /\ ~panicked'
             /\ moves' = <<>>
             /\ current_move' = 0
             /\ colours' = {}
             /\ tubes' = empty_tubes(n)]_vars

\* C12: init_tubes(n) with n < 4 fails fatally and does not change the Game's
\* tubes; with n >= 4 it returns and the tube collection is exactly n tubes,
\* every cell of every tube empty, tube i carrying the index i, i in 0..n-1.
C12_InitTubes ==
    [][\A n \in TubeCounts :
          InitTubes(n)
          => IF n < 4
             THEN panicked' /\ tubes' = tubes
             ELSE ~panicked' /\ tubes' = empty_tubes(n)]_vars

\* init_tubes(5) has replaced tubes that held liquid
C12_Witness ==
    /\ last = [op |-> "init_tubes", result |-> "done"]
    /\ Len(tubes) = 5
    /\ colours # {}

-----------------------------------------------------------------------------
(* C13, C14 *)

\* every cell of the tube holds the same value: one colour, or empty
uniform(tube) ==
    \A i, j \in 1..Len(tube.contents) : tube.contents[i] = tube.contents[j]

\* C13: is_game_complete returns true if and only if in every tube all cells
\* hold the same value (all one colour, or all empty): a tube partly empty
\* and partly one colour makes the game unsolved, an entirely empty tube
\* counts as solved.
C13_IsSolved ==
    last.op = "is_game_complete"
    => /\ ~panicked
       /\ last.result = (\A t \in 1..Len(tubes) : uniform(tubes[t]))

\* is_game_complete has answered true on a game with full and empty tubes
C13_Witness ==
    /\ last.op = "is_game_complete"
    /\ last.result = TRUE
    /\ \E t, u \in 1..Len(tubes) : /\ occupied(tubes[t]) = 1..TUBE_SIZE
                                   /\ occupied(tubes[u]) = {}

\* the cells (TLA+ indices) at which a maximal run of identical non-empty
\* cells begins
run_starts(contents) ==
    {i \in 1..Len(contents) :
        /\ contents[i] # None
        /\ (i = 1 \/ contents[i - 1] # contents[i])}

\* the runs of tubes t.. of ts, summed
RECURSIVE runs_from(_, _)
runs_from(ts, t) ==
    IF t > Len(ts) THEN 0
    ELSE Cardinality(run_starts(ts[t].contents)) + runs_from(ts, t + 1)

\* C14: get_number_of_blocks equals the sum over all tubes of the number of
\* maximal contiguous runs of identical non-empty cells: a tube of one
\* colour contributes 1, an entirely empty tube 0, a tube alternating two
\* colours over 4 cells 4.
C14_BlockCount ==
    last.op = "get_number_of_blocks"
    => /\ ~panicked
       /\ last.result = runs_from(tubes, 1)

\* the blocks of the game "b,r,b,r" / "r,r" / "b,b" / "" have been counted
C14_Witness ==
    /\ last.op = "get_number_of_blocks"
    /\ last.result = 6
    /\ tubes = started(<<D_BRBR, D_RR, D_BB, D_EMPTY>>).tubes

-----------------------------------------------------------------------------
(* C15 *)

\* the top segment of tube idx (a Rust index) of g, or None
top_of(g, idx) == get_top_colour(g.tubes[idx + 1])

\* the skip rule: the source's top segment already sits flush against the
\* bottom, so moving it to an empty tube changes nothing
C15_skip_rule(top) == top.pos + top.block_size = TUBE_SIZE

\* the ordered pairs of distinct tubes whose source has a top segment and
\* for which a move is due
C15_pairs(g) ==
    {p \in (0..(Len(g.tubes) - 1)) \X (0..(Len(g.tubes) - 1)) :
        /\ p[1] # p[2]
        /\ top_of(g, p[1]) # None
        /\ IF top_of(g, p[2]) = None
           THEN ~C15_skip_rule(top_of(g, p[1])[1])
           ELSE top_of(g, p[2])[1].colour = top_of(g, p[1])[1].colour}

\* the move due for such a pair
C15_move(g, p) ==
    [tube_from |-> p[1], tube_to |-> p[2],
     colour |-> top_of(g, p[1])[1].colour,
     quantity |->
        usize_of(IF top_of(g, p[2]) = None
                 THEN top_of(g, p[1])[1].block_size
                 ELSE min(top_of(g, p[1])[1].block_size,
                          top_of(g, p[2])[1].pos))]

\* C15: get_possible_moves considers every ordered pair of distinct tubes
\* whose source has a top segment, wherever the entirely empty tubes stand
\* in the tube order: it returns, once each, a move of quantity
\* min(source block size, destination top position) for each pair whose
\* destination's top colour equals the source's, a move of the full source
\* block size for each pair whose destination is empty unless the skip rule
\* applies, and no move for any other pair.
C15_PossibleMoves ==
    last.op = "get_possible_moves"
    => /\ ~panicked
       /\ {last.result[i] : i \in 1..Len(last.result)}
             = {C15_move(solver[1].current_state, p) :
                   p \in C15_pairs(solver[1].current_state)}
       /\ Len(last.result) = Cardinality(C15_pairs(solver[1].current_state))

-----------------------------------------------------------------------------
(* C16, C17 *)

\* C16: does_move_reduce_block_count returns; it returns true if and only if
\* the block count of the state obtained by applying the move to a copy of
\* the solver's state is strictly less than that state's block count, and
\* false for a move that is not legal.
C16_ReducesBlockCount ==
    last.op = "does_move_reduce_block_count"
    => /\ ~panicked
       /\ last.result
             = (get_number_of_blocks(make_move(solver[1].current_state,
                                               last.a_move))
                   < get_number_of_blocks(solver[1].current_state))
       /\ ~validate_move(solver[1].current_state, last.a_move)
             => last.result = FALSE

\* the step is a call on the Solver, or its construction
SolverCall ==
    last'.op \in {"new", "get_possible_moves", "does_move_reduce_block_count",
                  "peek_move"}

\* C17: peek_move returns a Game equal to the solver's state with make_move
\* performed on it when the move is legal, and equal to the solver's state
\* otherwise; Solver::new, peek_move, does_move_reduce_block_count and
\* get_possible_moves never change the Game the Solver was constructed from
\* nor the Solver's stored state, block count and buckets.
C17_PeekAndFrame ==
    [][/\ SolverCall
          => /\ GameUnchanged
             /\ solver # None => solver' = solver
       /\ last'.op = "peek_move"
          => /\ ~panicked'
             /\ last'.result
                   = IF validate_move(solver[1].current_state, last.a_move)
                     THEN make_move(solver[1].current_state, last.a_move)
                     ELSE solver[1].current_state]_vars

-----------------------------------------------------------------------------
(* C18, C19 *)

\* C18: for a Game whose block count differs from tubes.len() - 2,
\* Solver::new yields exactly block count - (tubes.len() - 2) buckets,
\* bucket 0 holding exactly one state equal to the given Game and every
\* other bucket empty; for a Game whose block count equals tubes.len() - 2
\* it yields zero buckets.
C18_SolverNew ==
    last.op = "new"
    => /\ ~panicked
       /\ solver # None
       /\ IF get_number_of_blocks(Game) = Len(tubes) - 2
          THEN solver[1].states = <<>>
          ELSE /\ Len(solver[1].states)
                     = get_number_of_blocks(Game) - (Len(tubes) - 2)
               /\ Len(solver[1].states) >= 1
               /\ solver[1].states[1] = <<Game>>
               /\ \A b \in 2..Len(solver[1].states) :
                     solver[1].states[b] = <<>>

\* C19: every Game handed to Solver::new whose block count equals
\* tubes.len() - 2 is already solved: is_game_complete is true for it.
C19_ShortCircuitOnlyWhenSolved ==
    (last.op = "new" /\ get_number_of_blocks(Game) = Len(tubes) - 2)
    => is_game_complete(Game)

-----------------------------------------------------------------------------
(* C20 *)

\* the positions of the commas of a description
C20_commas(d) == {i \in 1..Len(d) : d[i] = ","}

\* the position of the j-th comma; 0 for j = 0, one past the end for the
\* comma after the last token
C20_comma(d, j) ==
    IF j = 0 THEN 0
    ELSE IF j > Cardinality(C20_commas(d)) THEN Len(d) + 1
    ELSE CHOOSE p \in C20_commas(d) :
             Cardinality({q \in C20_commas(d) : q < p}) = j - 1

\* the j-th comma-separated token
C20_token(d, j) == SubSeq(d, C20_comma(d, j - 1) + 1, C20_comma(d, j) - 1)

\* a token without its leading and trailing white space
C20_trimmed(tok) ==
    LET solid == {i \in 1..Len(tok) : ~is_whitespace(tok[i])}
    IN  IF solid = {} THEN <<>>
        ELSE SubSeq(tok, CHOOSE i \in solid : \A j \in solid : i <= j,
                         CHOOSE i \in solid : \A j \in solid : i >= j)

\* the cell a token gives
C20_cell(tok) ==
    LET name == [i \in 1..Len(C20_trimmed(tok)) |->
                    lower_char(C20_trimmed(tok)[i])]
    IN  IF name = <<>> \/ name = <<"e", "m", "p", "t", "y">> THEN None
        ELSE Some(name)

\* C20: from_string on a description with k <= TUBE_SIZE comma-separated
\* tokens yields a tube of TUBE_SIZE cells whose first TUBE_SIZE - k cells
\* are empty and whose last k cells are the tokens in the order given, each
\* trimmed and lower-cased, the token "empty" and a blank token giving an
\* empty cell; the empty description yields an entirely empty tube.
C20_FromString ==
    LET d == last.string_colours
        k == Cardinality(C20_commas(d)) + 1
    IN  (last.op = "from_string" /\ k <= TUBE_SIZE)
        => /\ last.result.tube_number = last.tube_number
           /\ Len(last.result.contents) = TUBE_SIZE
           /\ \A i \in 1..(TUBE_SIZE - k) : last.result.contents[i] = None
           /\ \A j \in 1..k :
                 last.result.contents[TUBE_SIZE - k + j]
                    = C20_cell(C20_token(d, j))
           /\ d = <<>> => \A i \in 1..TUBE_SIZE : last.result.contents[i] = None

\* a tube has been built from " b ,Empty,R": one empty cell, then b, an
\* empty cell for "Empty", and r
C20_Witness ==
    /\ last.op = "from_string"
    /\ last.string_colours
          = <<" ", "b", " ", ",", "E", "m", "p", "t", "y", ",", "R">>
    /\ last.result.contents = <<None, Some(<<"b">>), None, Some(<<"r">>)>>

-----------------------------------------------------------------------------
(* C21, C22, C23 *)

\* C21: every tube has exactly TUBE_SIZE cells: the tube from_string builds
\* from any description, whatever its number of tokens, has TUBE_SIZE cells
\* (and make_move keeps the number of cells).
C21_TubeHasTubeSizeCells ==
    last.op = "from_string" => Len(last.result.contents) = TUBE_SIZE

\* C22: a tube built by from_string from any description, also one with an
\* "empty" or blank token between or after colour tokens, has all its empty
\* cells at the lowest indices and its occupied cells as one contiguous run
\* ending at index TUBE_SIZE - 1.
C22_BuiltTubeDoesNotFloat ==
    last.op = "from_string" => no_float(last.result)

\* C23: building a tube from the text a tube renders to and rendering the
\* new tube gives the same text as the first rendering.
C23_RenderRoundTrip ==
    last.op = "fmt" => last.result.text_again = last.result.text

-----------------------------------------------------------------------------
(* C24 *)

\* C24: after init_tubes and any sequence of init_tube_contents and
\* make_move calls, the tube stored at position i of the Game carries the
\* index i, and no init_tube_contents or make_move call changes the number
\* of tubes.
C24_TubeIdentity ==
    [][/\ ~panicked'
          => \A i \in 1..Len(tubes') : tubes'[i].tube_number = i - 1
       /\ last'.op \in {"init_tube_contents", "make_move"}
          => Len(tubes') = Len(tubes)]_vars

\* a tube has been refilled after a move was applied
C24_Witness ==
    /\ last = [op |-> "init_tube_contents", result |-> "done"]
    /\ current_move >= 1
    /\ Len(tubes) = 5

-----------------------------------------------------------------------------
(* C26, C27 *)

\* C26: Solver::new never aborts: for every Game with at least 4 tubes, also
\* one whose block count is smaller than tubes.len() - 2, it returns a
\* Solver.
C26_SolverNewNeverAborts ==
    (last.op = "new" /\ Len(tubes) >= 4)
    => ~panicked /\ solver # None

\* C27: validate_setup never aborts: on every Game, also a new Game with no
\* tubes, it returns a boolean.
C27_ValidateSetupNeverAborts ==
    last.op = "validate_setup"
    => ~panicked /\ last.result \in {"true", "false"}

-----------------------------------------------------------------------------
(* C28, C29, C30 *)

\* the moves get_possible_moves has returned
ReturnedMoves == {last.result[i] : i \in 1..Len(last.result)}

\* C28: every move get_possible_moves returns is legal in the solver's
\* state: validate_move is true for it, its colour is the source tube's top
\* colour, and its source and destination are distinct.
C28_ReturnedMovesAreLegal ==
    last.op = "get_possible_moves"
    => /\ ~panicked
       /\ \A m \in ReturnedMoves :
             /\ m.tube_from # m.tube_to
             /\ top_of(solver[1].current_state, m.tube_from) # None
             /\ m.colour
                   = top_of(solver[1].current_state, m.tube_from)[1].colour
             /\ validate_move(solver[1].current_state, m)

\* C29: every move get_possible_moves returns has a quantity between 1 and
\* TUBE_SIZE, and applying it changes the tubes; no move is proposed into a
\* destination that is already full.
C29_ReturnedMovesPour ==
    last.op = "get_possible_moves"
    => /\ ~panicked
       /\ \A m \in ReturnedMoves :
             /\ is_small(m.quantity)
             /\ nat_of(m.quantity) \in 1..TUBE_SIZE
             /\ make_move(solver[1].current_state, m).tubes
                   # solver[1].current_state.tubes

\* C30: get_possible_moves proposes no move from a source into an entirely
\* empty destination when the source's top segment reaches the bottom
\* (position + block size = TUBE_SIZE), and proposes a move of the full
\* block size into every empty destination for every source whose top
\* segment does not reach the bottom.
C30_EmptyDestination ==
    last.op = "get_possible_moves"
    => /\ ~panicked
       /\ \A f, t \in 0..(Len(solver[1].current_state.tubes) - 1) :
             (/\ top_of(solver[1].current_state, f) # None
              /\ top_of(solver[1].current_state, t) = None)
             => LET top == top_of(solver[1].current_state, f)[1]
                IN  IF top.pos + top.block_size = TUBE_SIZE
                    THEN \A m \in ReturnedMoves :
                            ~(m.tube_from = f /\ m.tube_to = t)
                    ELSE [tube_from |-> f, tube_to |-> t,
                          colour |-> top.colour,
                          quantity |-> usize_of(top.block_size)]
                            \in ReturnedMoves

-----------------------------------------------------------------------------
(* C31 *)

\* the Game each set-up of play leaves
C31_started == [inputs \in Setups |-> started(inputs)]

\* the moves ms[k], ms[k + 1], ... name tubes that g has
C31_in_range(g, ms, k) ==
    \A j \in k..Len(ms) : /\ ms[j].tube_from < Len(g.tubes)
                          /\ ms[j].tube_to < Len(g.tubes)

\* the moves ms[k], ms[k + 1], ... made on g in turn: the Game they lead to,
\* and the block counts of g and of the Games they lead through
RECURSIVE C31_play(_, _, _)
C31_play(g, ms, k) ==
    IF k > Len(ms) THEN [game |-> g, counts |-> <<get_number_of_blocks(g)>>]
    ELSE LET rest == C31_play(make_move(g, ms[k]), ms, k + 1)
         IN  [game |-> rest.game,
              counts |-> <<get_number_of_blocks(g)>> \o rest.counts]

\* the set-ups without floating liquid whose tubes are those of the Game as
\* it is, cell for cell, and have the tubes the applied moves name
C31_origins ==
    {inputs \in Setups :
        /\ all_no_float(C31_started[inputs].tubes)
        /\ Len(C31_started[inputs].tubes) = Len(tubes)
        /\ \A t \in 1..Len(tubes) :
              Len(C31_started[inputs].tubes[t].contents)
                  = Len(tubes[t].contents)
        /\ C31_in_range(C31_started[inputs], applied, 1)}

\* the moves of a play with block counts cs that lower the block count
C31_reducing(cs) == {k \in 1..(Len(cs) - 1) : cs[k + 1] < cs[k]}

\* C31: in play from a set-up without floating liquid, each applied legal
\* move changes get_number_of_blocks by -1, 0 or +1; and the moves applied
\* since the set-up, whose block count was b, to a state of block count s
\* contain at least b - s moves that lower the block count.
C31_BlockCountStep ==
    last = [op |-> "make_move", result |-> "applied"]
    => \A inputs \in C31_origins :
          LET play == C31_play(C31_started[inputs], applied, 1)
              cs == play.counts
          IN  play.game = Game
              => /\ \A k \in 1..(Len(cs) - 1) :
                       cs[k + 1] - cs[k] \in {-1, 0, 1}
                 /\ cs[1] - cs[Len(cs)] <= Cardinality(C31_reducing(cs))

\* two moves were applied to the game "b,r,b,r" / "r,r" / "b,b" / "", each
\* lowered the block count, from 6 to 4
C31_Witness ==
    /\ last = [op |-> "make_move", result |-> "applied"]
    /\ <<D_BRBR, D_RR, D_BB, D_EMPTY>> \in C31_origins
    /\ LET play == C31_play(C31_started[<<D_BRBR, D_RR, D_BB, D_EMPTY>>],
                            applied, 1)
       IN  /\ play.game = Game
           /\ play.counts = <<6, 5, 4>>

-----------------------------------------------------------------------------
(* C32 *)

\* the move last.a_move is legal on the Game, which has no floating liquid,
\* and names two different tubes
C32_case ==
    /\ last.op = "does_move_reduce_block_count"
    /\ all_no_float(tubes)
    /\ ~validate_move_panics(build, Game, last.a_move)
    /\ validate_move(Game, last.a_move)
    /\ last.a_move.tube_from # last.a_move.tube_to

\* the move last.a_move takes the whole top block of its source and its
\* destination is not empty
C32_whole_block_merged ==
    LET top == get_top_colour(tubes[last.a_move.tube_from + 1])
    IN  /\ top # None
        /\ last.a_move.quantity = usize_of(top[1].block_size)
        /\ occupied(tubes[last.a_move.tube_to + 1]) # {}

\* C32: on a Game without floating liquid and for a legal move between two
\* different tubes, does_move_reduce_block_count is true if and only if the
\* quantity is the whole block size of the source's top segment and the
\* destination is not empty; a move into an empty tube, and a move of part
\* of a block, never reduce the block count.
C32_ReducesIffWholeBlockMerged ==
    C32_case => /\ ~panicked
                /\ last.result = C32_whole_block_merged

-----------------------------------------------------------------------------
(* C33 *)

\* the Game each set-up of the end of a game leaves
C33_started == [inputs \in EndgameSetups |-> started(inputs)]

\* the set-ups for which validate_setup is true and from which the applied
\* moves lead to the Game as it is
C33_valid_origins ==
    {inputs \in EndgameSetups :
        /\ ~validate_setup_panics(build, C33_started[inputs])
        /\ validate_setup(C33_started[inputs])
        /\ C31_in_range(C33_started[inputs], applied, 1)
        /\ C31_play(C33_started[inputs], applied, 1).game = Game}

\* C33: in every state reached by calls of make_move from a set-up for which
\* validate_setup is true, is_game_complete is true if and only if
\* get_number_of_blocks equals the number of tubes less two.
C33_SolvedIffBlockCount ==
    C33_valid_origins # {}
    => (is_game_complete(Game)
        <=> get_number_of_blocks(Game) = Len(tubes) - 2)

-----------------------------------------------------------------------------
(* C34 *)

\* C34: an applied make_move changes the cells of its source tube and of its
\* destination tube only: every other tube keeps its cells, every tube
\* keeps its tube_number, and the number of tubes and the colour set stay
\* as they were.
C34_MoveFrame ==
    [][MakeMoveApplied
       => /\ Len(tubes') = Len(tubes)
          /\ \A t \in 1..Len(tubes) :
                /\ tubes'[t].tube_number = tubes[t].tube_number
                /\ t \notin {AppliedMove.tube_from + 1,
                             AppliedMove.tube_to + 1}
                   => tubes'[t].contents = tubes[t].contents
          /\ colours' = colours]_vars

\* two moves were applied, and the second took liquid out of one tube and
\* put it into another while a third tube holds liquid
C34_Witness ==
    /\ last = [op |-> "make_move", result |-> "applied"]
    /\ Len(applied) = 2
    /\ applied[2].tube_from # applied[2].tube_to
    /\ is_small(applied[2].quantity)
    /\ \E t \in 1..Len(tubes) :
          /\ t \notin {applied[2].tube_from + 1, applied[2].tube_to + 1}
          /\ occupied(tubes[t]) # {}

-----------------------------------------------------------------------------
(* C35 *)

\* C35: make_move never finds a move of quantity 0 legal: after every call
\* each move in the log has a quantity between 1 and TUBE_SIZE, and a call
\* that raised the move counter for a move between two different tubes
\* changed a cell of a tube.
C35_LoggedMovesPour ==
    [][MakeMoveReturned
       => /\ \A k \in DOMAIN moves' :
                /\ is_small(moves'[k].quantity)
                /\ nat_of(moves'[k].quantity) \in 1..TUBE_SIZE
          /\ (/\ current_move' > current_move
              /\ moves'[current_move'].tube_from
                    # moves'[current_move'].tube_to)
             => tubes' # tubes]_vars

-----------------------------------------------------------------------------
(* C36 *)

\* C36: is_valid_move_to returns false for every quantity greater than
\* TUBE_SIZE, whatever usize value it is: the conversion of the position and
\* the quantity to i32 does not let an over-large quantity pass.
C36_OverlargeQuantityRefused ==
    (/\ last.op = "is_valid_move_to"
     /\ (~is_small(last.a_move.quantity)
         \/ nat_of(last.a_move.quantity) > TUBE_SIZE))
    => last.result = "false"

-----------------------------------------------------------------------------
(* C37 *)

\* colour labels as a caller may write them: "r", "R", " r", "b ", "B"
C37_labels == {<<"r">>, <<"R">>, <<" ", "r">>, <<"b", " ">>, <<"B">>}

\* the trimmed, lower-cased label
C37_normalized(label) == to_lowercase(trim(label))

\* the moves that differ from a_move in the case or the surrounding
\* whitespace of the colour label only
C37_relabelled(a_move) ==
    {[a_move EXCEPT !.colour = label] :
        label \in {l \in C37_labels :
                      C37_normalized(l) = C37_normalized(a_move.colour)}}

\* C37: two moves that differ only in the letter case or the surrounding
\* whitespace of their colour label get the same answer from validate_move
\* and have the same effect in make_move, on every Game.
C37_ColourLabelsNormalized ==
    (last.op = "validate_move" /\ ~panicked)
    => \A other \in C37_relabelled(last.a_move) :
          /\ ~validate_move_panics(build, Game, other)
          /\ validate_move(Game, other) = (last.result = "true")
          /\ ~make_move_panics(build, Game, other)
          /\ make_move(Game, other).tubes
                = make_move(Game, last.a_move).tubes

-----------------------------------------------------------------------------
(* C38 *)

\* the occupied cell of lowest index (a TLA+ index) of a tube that has one
C38_first(tube) == CHOOSE i \in occupied(tube) : \A j \in occupied(tube) : i <= j

\* the length of the maximal run of cells equal to cell i, from cell i on
C38_run(tube, i) ==
    CHOOSE n \in 1..Len(tube.contents) :
        /\ i + n - 1 <= Len(tube.contents)
        /\ \A k \in i..(i + n - 1) : tube.contents[k] = tube.contents[i]
        /\ i + n <= Len(tube.contents)
           => tube.contents[i + n] # tube.contents[i]

\* C38: for a tube with an occupied cell get_top_colour returns the colour
\* of the occupied cell of lowest index, that index as pos, and as
\* block_size the length of the maximal run of cells of that colour from
\* that index on; it returns None exactly when every cell is empty.
C38_TopSegment ==
    last.op = "get_top_colour"
    => LET tube == last.result.tube
       IN  IF occupied(tube) = {}
           THEN last.result.top = None
           ELSE last.result.top
                   = Some([colour |-> tube.contents[C38_first(tube)][1],
                           pos |-> C38_first(tube) - 1,
                           block_size |-> C38_run(tube, C38_first(tube))])

\* the top segment of the tube built from ", b , b ,R,": an empty cell, a
\* run of two b, then r over an empty fifth cell
C38_Witness ==
    /\ last.op = "get_top_colour"
    /\ Len(last.result.tube.contents) = 5
    /\ last.result.tube.contents[5] = None
    /\ last.result.tube.contents[4] = Some(RED)
    /\ last.result.top = Some([colour |-> BLUE, pos |-> 1, block_size |-> 2])

=============================================================================
